---- MODULE Spec2Model ----
(***************************************************************************)
(* Transaction confirmation tracking of the Pyro SDK.                      *)
(*                                                                         *)
(* Three implementations of waitForConfirmation are modelled:              *)
(*   "evm"    EVMSDK.waitForConfirmation     packages/evm-sdk/src/index.ts *)
(*   "solana" SolanaSDK.waitForConfirmation  unnamed/part_000              *)
(*   "legacy" SolanaSDK.waitForConfirmation  packages/solana-sdk/src/index.ts *)
(* together with retry() and sleep() of packages/utils/src/index.ts and    *)
(* the catch blocks of the send-style methods that call the wait.          *)
(*                                                                         *)
(* One behaviour is one waitForConfirmation call.  Every await of the code *)
(* is a step; the synchronous code between two awaits is one action.  The  *)
(* chain RPC endpoint is the environment: every answer it can give is      *)
(* drawn nondeterministically.  Time is in milliseconds and advances by    *)
(* the sleeps of the code.                                                 *)
(***************************************************************************)
EXTENDS Integers, Sequences, FiniteSets, TLC

(* ---------------- bounds of the model ---------------- *)
MaxTimeout == 2
MaxConf == 3
MaxBlock == 4
MaxReceiptBlock == 2
PollCap == 10
MaxRetries == 4
MaxBytes == 3
MaxHexLen == 4

(* ---------------- constants of the program ---------------- *)
RetryAttempts == 3
RetryDelayMs == 1000
EvmPollMs == 2000
SolanaPollMs == 500
EvmDefaultTimeoutMs == 60000
SolanaDefaultTimeoutMs == 30000

Impls == {"evm", "solana", "legacy"}
Levels == {"processed", "confirmed", "finalized"}

VARIABLES
  impl,             \* which implementation runs the call
  maxConfirmations, \* argument maxConfirmations (Solana: 0 = not given)
  status,           \* argument status (Solana); "confirmed" for EVM
  timeout,          \* argument timeout in seconds (0 = not given)
  now,              \* Date.now()
  startTime,        \* local startTime
  pc,               \* position of the call
  i,                \* loop index of the running retry()
  retryOf,          \* which operation the running retry() wraps
  branch,           \* Solana: the condition that led to getBlock
  sig,              \* the status answer of the current poll
  outcome,          \* how waitForConfirmation ended
  caller,           \* the method that called waitForConfirmation
  callerOutcome,    \* what reaches the caller of that method
  polls,            \* loop iterations begun, counted up to PollCap
  failsThisPoll,    \* failed status queries of the current poll
  fetch,            \* block fetch of the current poll: none / ok / fail
  currentBlock,     \* EVM: the answer of getBlockNumber in the current poll (-1 = none)
  prevConf,         \* EVM: confirmations computed in the poll before
  growing,          \* EVM: confirmations so far were 0,1,2,... poll by poll
  allFailed,        \* no status query of the call has answered yet
  timeoutSignals,   \* timeout outcomes produced
  inFlight,         \* RPC calls of the call issued and not yet settled
  timeoutInfo       \* the fields of the TimeoutError thrown

\* one call of retry(fn, maxRetries, delay)
VARIABLES
  rMax,             \* argument maxRetries
  rDelay,           \* argument delay
  rPc,              \* position of the call
  rI,               \* loop index i
  rCalls,           \* invocations of fn so far
  rLastError,       \* lastError: the invocation whose error it holds (0 = unassigned)
  rSlept,           \* total time slept
  rLastSleep,       \* the last sleep made
  rResult           \* how retry ended

\* a second call of waitForConfirmation, on another handle, running
\* concurrently: the call whose code runs owns the variables above, the
\* suspended one keeps its arguments and locals in other
VARIABLES
  other,            \* arguments and locals of the suspended call
  turn              \* the handle whose call runs: 1 or 2 (0 = one call only)

\* calls of the other functions of the packages, one at a time
VARIABLES
  util,             \* a call of bytesToHex, hexToBytes or wrapTransactionWithFee
  api               \* a call of send, sendRawTransaction, receive or getTransactionStatus

\* the SDK object the calls are made on, and a second call of
\* waitForConfirmation for the same handle after the first has ended
VARIABLES
  sdk,              \* the private fields of the SDK object
  again             \* which call runs, how the first ended, what the endpoint answers

vars == <<impl, maxConfirmations, status, timeout, now, startTime, pc, i,
          retryOf, branch, sig, outcome, caller, callerOutcome, polls,
          failsThisPoll, fetch, currentBlock, prevConf, growing, allFailed,
          timeoutSignals, inFlight, timeoutInfo, rMax, rDelay, rPc, rI,
          rCalls, rLastError, rSlept, rLastSleep, rResult, other, turn,
          util, api, sdk, again>>

params == <<impl, maxConfirmations, status, timeout, startTime>>
thisPoll == <<i, retryOf, branch, sig, failsThisPoll, fetch, currentBlock>>
callerVars == <<caller, callerOutcome>>
retryVars == <<rMax, rDelay, rPc, rI, rCalls, rLastError, rSlept, rLastSleep,
               rResult>>
concVars == <<other, turn>>
sideVars == <<util, api, sdk, again>>
waitVars == <<impl, maxConfirmations, status, timeout, now, startTime, pc, i,
              retryOf, branch, sig, outcome, caller, callerOutcome, polls,
              failsThisPoll, fetch, currentBlock, prevConf, growing,
              allFailed, timeoutSignals, inFlight, timeoutInfo>>

(* ---------------- values ---------------- *)
\* no answer yet in this poll
NoSig == [found |-> FALSE, err |-> FALSE, level |-> "none", slot |-> 0,
          confirmations |-> 0]

\* the answer null: the transaction is not known to the endpoint
NullAnswer == [found |-> FALSE, err |-> FALSE, level |-> "null", slot |-> 0,
               confirmations |-> 0]

\* getSignatureStatus(signature).value
SolanaAnswers ==
  {NullAnswer} \cup
  [found : {TRUE}, err : BOOLEAN, level : Levels, slot : {0, 1},
   confirmations : 0..MaxConf]

\* getTransactionReceipt(txHash): err is receipt.status = 0, slot is
\* receipt.blockNumber
EvmAnswers ==
  {NullAnswer} \cup
  [found : {TRUE}, err : BOOLEAN, level : {"none"}, slot : 1..MaxReceiptBlock,
   confirmations : {0}]

NoOutcome == [kind |-> "none", name |-> "none", status |-> "none",
              blockNumber |-> -1, blockHash |-> "undefined",
              confirmations |-> -1]

Returned(st, bn, bh, c) ==
  [kind |-> "return", name |-> "TransactionResult", status |-> st,
   blockNumber |-> bn, blockHash |-> bh, confirmations |-> c]

Thrown(n, st) ==
  [kind |-> "throw", name |-> n, status |-> st, blockNumber |-> -1,
   blockHash |-> "undefined", confirmations |-> -1]

\* the transaction hash or signature the call waits for
TxHash == "txHash"

(* ---------------- pure parts of the code ---------------- *)
DefaultTimeoutMsZero(im) == 0
DefaultTimeoutMs(im) ==
  IF im = "evm" THEN EvmDefaultTimeoutMs ELSE SolanaDefaultTimeoutMs

\* const timeoutMs = timeout ? timeout * 1000 : <default>
TimeoutMsUnscaled(im, t) == IF t # 0 THEN t ELSE DefaultTimeoutMs(im)
TimeoutMs(im, t) == IF t # 0 THEN t * 1000 ELSE DefaultTimeoutMs(im)

PollMsNone(im) == 0
PollMs(im) == IF im = "evm" THEN EvmPollMs ELSE SolanaPollMs

\* while (Date.now() - startTime < timeoutMs)
DeadlineOpen == now - startTime < TimeoutMs(impl, timeout)

\* retry(): for (let i = 0; i < maxRetries; i++)
RetryLoopCondInclusive(k, maxRetries) == k <= maxRetries
RetryLoopCond(k, maxRetries) == k < maxRetries

\* retry(): if (i < maxRetries - 1) await sleep(delay * (i + 1))
RetryHasNextShort(k, maxRetries) == k < maxRetries - 2
RetryHasNext(k, maxRetries) == k < maxRetries - 1
RetryDelayConstant(k, delay) == delay
RetryDelay(k, delay) == delay * (k + 1)

\* attempts made for the status query: retry(fn, 3, 1000) in evm and solana,
\* a bare call in legacy
StatusAttempts(im) == IF im = "legacy" THEN 1 ELSE RetryAttempts

\* const commitment = status === "processed" ? ... : "confirmed"
CommitmentOf(st) ==
  IF st = "processed" THEN "processed"
  ELSE IF st = "finalized" THEN "finalized" ELSE "confirmed"

\* confirmationStatus === commitment ||
\*   (commitment === "confirmed" && confirmationStatus === "finalized")
LevelMatchAtLeast(commitment, reported) ==
  \/ reported = commitment
  \/ (commitment = "confirmed" /\ reported = "finalized")
  \/ (commitment = "processed" /\ reported \in {"confirmed", "finalized"})
LevelMatchBothWays(commitment, reported) ==
  \/ reported = commitment
  \/ (commitment \in {"confirmed", "finalized"}
      /\ reported \in {"confirmed", "finalized"})
LevelMatchExact(commitment, reported) == reported = commitment
LevelMatch(commitment, reported) ==
  \/ reported = commitment
  \/ (commitment = "confirmed" /\ reported = "finalized")

\* maxConfirmations && value.confirmations && confirmations >= maxConfirmations
CountMatchStrict(maxC, c) == maxC # 0 /\ c # 0 /\ c > maxC
CountMatch(maxC, c) == maxC # 0 /\ c # 0 /\ c >= maxC

\* const confirmations = currentBlock - receipt.blockNumber + 1
EvmConfirmationsAbs(cb, receiptBlock) ==
  (IF cb >= receiptBlock THEN cb - receiptBlock ELSE receiptBlock - cb) + 1
EvmConfirmationsNoPlusOne(cb, receiptBlock) == cb - receiptBlock
EvmConfirmations(cb, receiptBlock) == cb - receiptBlock + 1

\* blockInfo?.blockhash
BlockHashOf(blockInfo) == IF blockInfo = "null" THEN "undefined" ELSE "hash"

\* a chain-reported failure: thrown by evm and solana, returned by legacy
ChainFailureReturned(im) == Returned("failed", -1, "undefined", -1)
ChainFailure(im) ==
  IF im = "legacy" THEN Returned("failed", -1, "undefined", -1)
  ELSE Thrown("TransactionError", "failed")

\* the end of the loop: thrown by evm and solana, returned by legacy
TimeoutOutcome(im) ==
  IF im = "legacy" THEN Returned("pending", -1, "undefined", -1)
  ELSE Thrown("TimeoutError", "none")

\* new TimeoutError(message, timeoutMs / 1000, {txHash, maxConfirmations}) and
\* new TimeoutError(message, timeoutMs / 1000, {signature, status,
\* maxConfirmations})
NoTimeoutInfo == [timeout |-> -1, handle |-> "none", status |-> "none",
                  maxConfirmations |-> -1]
TimeoutErrorOfMs(im, t, st, maxC) ==
  IF im = "legacy" THEN NoTimeoutInfo
  ELSE [timeout |-> TimeoutMs(im, t), handle |-> TxHash,
        status |-> (IF im = "evm" THEN "none" ELSE st),
        maxConfirmations |-> maxC]
TimeoutErrorOf(im, t, st, maxC) ==
  IF im = "legacy" THEN NoTimeoutInfo
  ELSE [timeout |-> TimeoutMs(im, t) \div 1000, handle |-> TxHash,
        status |-> (IF im = "evm" THEN "none" ELSE st),
        maxConfirmations |-> maxC]

\* an RPC call is made; the await on it ends when it has settled
Issued(n) == n + 1
SettledLate(n) == n
Settled(n) == n - 1

\* catch (error) { if (error instanceof TransactionError) throw error; ... }
\* (the catch of the legacy loop rethrows nothing)
RethrownAlways(im, name) ==
  im # "legacy" /\ name \in {"TransactionError", "Error"}
Rethrown(im, name) == im # "legacy" /\ name = "TransactionError"

Callers(im) ==
  IF im = "evm"
  THEN {"direct", "send", "sendRawTransaction", "callContractFunction"}
  ELSE IF im = "solana"
  THEN {"direct", "send", "sendTransaction", "sendAtomicTransaction"}
  ELSE {"direct", "send"}

\* the errors a send-style method lets through unchanged
PassedThrough(c, name) ==
  \/ name \in {"ValidationError", "TransactionError"}
  \/ (c = "callContractFunction" /\ name = "RPCError")

\* return await this.waitForConfirmation(...) inside try/catch of the caller
CallerCatch(im, c, o) ==
  IF o.kind # "throw" \/ c = "direct" \/ im = "legacy" THEN o
  ELSE IF PassedThrough(c, o.name) THEN o
  ELSE Thrown("TransactionError", "failed")

(* ---------------- initial state ---------------- *)
\* no call of retry() on its own is under way
RetryIdle ==
  /\ rMax = 0
  /\ rDelay = 0
  /\ rPc = "idle"
  /\ rI = 0
  /\ rCalls = 0
  /\ rLastError = 0
  /\ rSlept = 0
  /\ rLastSleep = 0
  /\ rResult = [kind |-> "none", value |-> 0]

WaitInit ==
  /\ impl \in Impls
  /\ maxConfirmations \in (IF impl = "evm" THEN 1..MaxConf ELSE 0..MaxConf)
  /\ status \in (IF impl = "evm" THEN {"confirmed"} ELSE Levels)
  /\ timeout \in 0..MaxTimeout
  /\ now = 0
  /\ startTime = 0
  /\ pc = "loop"
  /\ i = 0
  /\ retryOf = "none"
  /\ branch = "none"
  /\ sig = NoSig
  /\ outcome = NoOutcome
  /\ caller = "none"
  /\ callerOutcome = NoOutcome
  /\ polls = 0
  /\ failsThisPoll = 0
  /\ fetch = "none"
  /\ currentBlock = -1
  /\ prevConf = -1
  /\ growing = TRUE
  /\ allFailed = TRUE
  /\ timeoutSignals = 0
  /\ inFlight = 0
  /\ timeoutInfo = NoTimeoutInfo

\* no second call
NoCall == [pc |-> "idle"]
ConcIdle == other = NoCall /\ turn = 0

\* no call of another function
\* the fields the constructor sets: the provider (EVM), the connection and
\* the commitment (Solana)
SdkFields(im, c) ==
  IF im = "evm" THEN [provider |-> "rpc"]
  ELSE [connection |-> "rpc", commitment |-> c]

\* a constructed SDK with the default commitment, and no second call
SdkIdle == sdk = SdkFields(impl, "confirmed") /\ again = NoCall

SideIdle == util = NoCall /\ api = NoCall /\ SdkIdle

Init == WaitInit /\ RetryIdle /\ ConcIdle /\ SideIdle

(* ---------------- steps of waitForConfirmation ---------------- *)
\* the call ends with outcome o
EndWith(o) == outcome' = o /\ pc' = "ended"

\* await sleep(<poll interval>) is next
ToLoopAtOnce == pc' = "loop" /\ outcome' = outcome
ToSleep == pc' = "sleep" /\ outcome' = outcome

\* the loop condition holds: a poll begins with the status query
BeginPoll ==
  /\ pc = "loop"
  /\ DeadlineOpen
  /\ pc' = "status"
  /\ polls' = (IF polls < PollCap THEN polls + 1 ELSE polls)
  /\ i' = 0
  /\ retryOf' = "status"
  /\ inFlight' = Issued(inFlight)
  /\ timeoutInfo' = timeoutInfo
  /\ UNCHANGED <<sideVars, concVars, retryVars, params, now, branch, sig, failsThisPoll, fetch, currentBlock,
                 outcome, callerVars, prevConf, growing, allFailed,
                 timeoutSignals>>

\* the loop condition fails: the code after the loop
TimeoutReached ==
  /\ pc = "loop"
  /\ ~DeadlineOpen
  /\ EndWith(TimeoutOutcome(impl))
  /\ timeoutSignals' = timeoutSignals + 1
  /\ timeoutInfo' = TimeoutErrorOf(impl, timeout, status, maxConfirmations)
  /\ inFlight' = inFlight
  /\ UNCHANGED <<sideVars, concVars, retryVars, params, now, thisPoll, callerVars, polls, prevConf, growing,
                 allFailed>>

\* the status query fails: retry() sleeps and tries again, or gives up and
\* the catch block of the loop decides about the error
StatusFails ==
  /\ pc = "status"
  /\ failsThisPoll' = failsThisPoll + 1
  /\ IF RetryHasNext(i, StatusAttempts(impl))
     THEN pc' = "backoff" /\ outcome' = outcome
     ELSE IF Rethrown(impl, "Error")
     THEN EndWith(Thrown("Error", "none"))
     ELSE ToSleep
  /\ growing' = (IF pc' = "backoff" THEN growing ELSE FALSE)
  /\ prevConf' = (IF pc' = "backoff" THEN prevConf ELSE -1)
  /\ inFlight' = Settled(inFlight)
  /\ timeoutInfo' = timeoutInfo
  /\ UNCHANGED <<sideVars, concVars, retryVars, params, now, i, retryOf, branch, sig, fetch, currentBlock,
                 callerVars, polls, allFailed, timeoutSignals>>

\* retry(): await sleep(delay * (i + 1)), then the next round of its loop
BackoffChecksDeadline ==
  /\ pc = "backoff"
  /\ now' = now + RetryDelay(i, RetryDelayMs)
  /\ i' = i + 1
  /\ IF now' - startTime < TimeoutMs(impl, timeout)
     THEN /\ pc' = retryOf
          /\ outcome' = outcome
          /\ timeoutSignals' = timeoutSignals
          /\ inFlight' = Issued(inFlight)
     ELSE /\ EndWith(TimeoutOutcome(impl))
          /\ timeoutSignals' = timeoutSignals + 1
          /\ inFlight' = inFlight
  /\ timeoutInfo' = timeoutInfo
  /\ UNCHANGED <<sideVars, concVars, retryVars, params, retryOf, branch, sig, failsThisPoll, fetch, currentBlock,
                 callerVars, polls, prevConf, growing, allFailed>>
Backoff ==
  /\ pc = "backoff"
  /\ now' = now + RetryDelay(i, RetryDelayMs)
  /\ i' = i + 1
  /\ pc' = retryOf
  /\ inFlight' = Issued(inFlight)
  /\ timeoutInfo' = timeoutInfo
  /\ UNCHANGED <<sideVars, concVars, retryVars, params, retryOf, branch, sig, failsThisPoll, fetch, currentBlock,
                 outcome, callerVars, polls, prevConf, growing, allFailed,
                 timeoutSignals>>

\* EVM: the code from the receipt to the next await, return or throw
EvmOnReceipt(r) ==
  IF ~r.found THEN ToSleep /\ UNCHANGED <<i, retryOf>>
  ELSE IF maxConfirmations > 1
  THEN /\ pc' = "block"
       /\ i' = 0
       /\ retryOf' = "none"
       /\ outcome' = outcome
  ELSE IF r.err
  THEN EndWith(ChainFailure(impl)) /\ UNCHANGED <<i, retryOf>>
  ELSE EndWith(Returned("confirmed", r.slot, "hash", 1)) /\ UNCHANGED <<i, retryOf>>

\* Solana: which condition of the poll asks for the block, if any
SolanaBranchNoSlot(r) ==
  IF LevelMatch(CommitmentOf(status), r.level) THEN "level"
  ELSE IF CountMatch(maxConfirmations, r.confirmations) THEN "count"
  ELSE "none"
SolanaBranchCountFirst(r) ==
  IF CountMatch(maxConfirmations, r.confirmations) /\ r.slot # 0 THEN "count"
  ELSE IF LevelMatch(CommitmentOf(status), r.level) /\ r.slot # 0
  THEN "level"
  ELSE "none"
SolanaBranch(r) ==
  IF LevelMatch(CommitmentOf(status), r.level) /\ r.slot # 0 THEN "level"
  ELSE IF CountMatch(maxConfirmations, r.confirmations) /\ r.slot # 0
  THEN "count"
  ELSE "none"

\* Solana: the code from the status to the next await, return or throw
SolanaOnStatus(r) ==
  IF ~r.found THEN ToSleep /\ UNCHANGED <<i, retryOf, branch>>
  ELSE IF r.err
  THEN EndWith(ChainFailure(impl)) /\ UNCHANGED <<i, retryOf, branch>>
  ELSE IF SolanaBranch(r) # "none"
  THEN /\ pc' = "block"
       /\ i' = 0
       /\ retryOf' = "block"
       /\ branch' = SolanaBranch(r)
       /\ outcome' = outcome
  ELSE ToSleep /\ UNCHANGED <<i, retryOf, branch>>

\* the status query answers
StatusAnswers ==
  /\ pc = "status"
  /\ \E r \in (IF impl = "evm" THEN EvmAnswers ELSE SolanaAnswers) :
       /\ sig' = r
       /\ IF impl = "evm"
          THEN EvmOnReceipt(r) /\ UNCHANGED branch
          ELSE SolanaOnStatus(r)
  /\ allFailed' = FALSE
  /\ growing' = (IF pc' = "sleep" THEN FALSE ELSE growing)
  /\ prevConf' = (IF pc' = "sleep" THEN -1 ELSE prevConf)
  /\ inFlight' = (IF pc' = "block" THEN Issued(Settled(inFlight))
                  ELSE Settled(inFlight))
  /\ timeoutInfo' = timeoutInfo
  /\ UNCHANGED <<sideVars, concVars, retryVars, params, now, failsThisPoll, fetch, currentBlock, callerVars,
                 polls, timeoutSignals>>

\* the block fetch fails: EVM getBlockNumber is a bare call, Solana getBlock
\* runs under retry(); the error that leaves either is caught by the loop
BlockFailsAsFailure ==
  /\ pc = "block"
  /\ IF impl # "evm" /\ RetryHasNext(i, RetryAttempts)
     THEN pc' = "backoff" /\ outcome' = outcome /\ fetch' = fetch
     ELSE EndWith(ChainFailure(impl)) /\ fetch' = "fail"
  /\ growing' = (IF pc' = "backoff" THEN growing ELSE FALSE)
  /\ prevConf' = (IF pc' = "backoff" THEN prevConf ELSE -1)
  /\ inFlight' = Settled(inFlight)
  /\ timeoutInfo' = timeoutInfo
  /\ UNCHANGED <<sideVars, concVars, retryVars, params, now, i, retryOf, branch, sig, failsThisPoll,
                 currentBlock, callerVars, polls, allFailed, timeoutSignals>>
BlockFails ==
  /\ pc = "block"
  /\ IF impl # "evm" /\ RetryHasNext(i, RetryAttempts)
     THEN pc' = "backoff" /\ outcome' = outcome /\ fetch' = fetch
     ELSE IF Rethrown(impl, "Error")
     THEN EndWith(Thrown("Error", "none")) /\ fetch' = "fail"
     ELSE ToSleep /\ fetch' = "fail"
  /\ growing' = (IF pc' = "backoff" THEN growing ELSE FALSE)
  /\ prevConf' = (IF pc' = "backoff" THEN prevConf ELSE -1)
  /\ inFlight' = Settled(inFlight)
  /\ timeoutInfo' = timeoutInfo
  /\ UNCHANGED <<sideVars, concVars, retryVars, params, now, i, retryOf, branch, sig, failsThisPoll,
                 currentBlock, callerVars, polls, allFailed, timeoutSignals>>

\* EVM: getBlockNumber answers
EvmBlockAnswers ==
  /\ pc = "block"
  /\ impl = "evm"
  /\ \E cb \in 0..MaxBlock :
       LET confirmations == EvmConfirmations(cb, sig.slot) IN
       /\ currentBlock' = cb
       /\ growing' = (growing /\ ~sig.err /\ confirmations = prevConf + 1)
       /\ prevConf' = (IF growing' THEN confirmations ELSE -1)
       /\ IF confirmations >= maxConfirmations
          THEN IF sig.err
               THEN EndWith(ChainFailure(impl))
               ELSE EndWith(Returned("confirmed", sig.slot, "hash",
                                     confirmations))
          ELSE ToSleep
  /\ fetch' = "ok"
  /\ inFlight' = Settled(inFlight)
  /\ timeoutInfo' = timeoutInfo
  /\ UNCHANGED <<sideVars, concVars, retryVars, params, now, i, retryOf, branch, sig, failsThisPoll,
                 callerVars, polls, allFailed, timeoutSignals>>

\* Solana: getBlock answers, with a block or with null
SolanaBlockAnswers ==
  /\ pc = "block"
  /\ impl # "evm"
  /\ \E blockInfo \in {"null", "block"} :
       EndWith(Returned("confirmed", sig.slot, BlockHashOf(blockInfo),
                        sig.confirmations))
  /\ fetch' = "ok"
  /\ inFlight' = Settled(inFlight)
  /\ timeoutInfo' = timeoutInfo
  /\ UNCHANGED <<sideVars, concVars, retryVars, params, now, i, retryOf, branch, sig, failsThisPoll,
                 currentBlock, callerVars, polls, prevConf, growing, allFailed,
                 timeoutSignals>>

\* await sleep(2000) (EVM) or await sleep(500) (Solana), then the loop check;
\* the locals of the finished iteration go out of scope
Sleep ==
  /\ pc = "sleep"
  /\ now' = now + PollMs(impl)
  /\ pc' = "loop"
  /\ i' = 0
  /\ retryOf' = "none"
  /\ branch' = "none"
  /\ sig' = NoSig
  /\ failsThisPoll' = 0
  /\ fetch' = "none"
  /\ currentBlock' = -1
  /\ UNCHANGED <<inFlight, timeoutInfo>>
  /\ UNCHANGED <<sideVars, concVars, retryVars, params, outcome, callerVars, polls, prevConf, growing,
                 allFailed, timeoutSignals>>

\* the call is over: its outcome passes through the method that made it
Deliver ==
  /\ pc = "ended"
  /\ \E c \in Callers(impl) :
       /\ caller' = c
       /\ callerOutcome' = CallerCatch(impl, c, outcome)
  /\ pc' = "delivered"
  /\ UNCHANGED <<inFlight, timeoutInfo>>
  /\ UNCHANGED <<sideVars, concVars, retryVars, params, now, thisPoll, outcome, polls, prevConf, growing,
                 allFailed, timeoutSignals>>

Next ==
  \/ BeginPoll
  \/ TimeoutReached
  \/ StatusFails
  \/ StatusAnswers
  \/ Backoff
  \/ BlockFails
  \/ EvmBlockAnswers
  \/ SolanaBlockAnswers
  \/ Sleep
  \/ Deliver

Spec == Init /\ [][Next]_vars

TypeOK ==
  /\ pc \in {"loop", "status", "backoff", "block", "sleep", "ended",
             "delivered", "idle"}
  /\ outcome.kind \in {"none", "return", "throw"}
  /\ (pc \in {"ended", "delivered"}) = (outcome.kind # "none")

(* ---------------- retry(fn, maxRetries, delay) on its own ---------------- *)
RetryInit ==
  /\ rMax \in -1..MaxRetries
  /\ rDelay \in {1, 2, 10, RetryDelayMs}
  /\ rPc = "loop"
  /\ rI = 0
  /\ rCalls = 0
  /\ rLastError = 0
  /\ rSlept = 0
  /\ rLastSleep = 0
  /\ rResult = [kind |-> "none", value |-> 0]
  /\ impl = "evm"
  /\ maxConfirmations = 1
  /\ status = "confirmed"
  /\ timeout = 0
  /\ now = 0
  /\ startTime = 0
  /\ pc = "idle"
  /\ i = 0
  /\ retryOf = "none"
  /\ branch = "none"
  /\ sig = NoSig
  /\ outcome = NoOutcome
  /\ caller = "none"
  /\ callerOutcome = NoOutcome
  /\ polls = 0
  /\ failsThisPoll = 0
  /\ fetch = "none"
  /\ currentBlock = -1
  /\ prevConf = -1
  /\ growing = TRUE
  /\ allFailed = TRUE
  /\ timeoutSignals = 0
  /\ inFlight = 0
  /\ timeoutInfo = NoTimeoutInfo
  /\ ConcIdle
  /\ SideIdle

\* return await fn(): fn is invoked and succeeds
RetryFnReturnsAndGoesOn ==
  /\ rPc = "loop"
  /\ RetryLoopCond(rI, rMax)
  /\ rCalls' = rCalls + 1
  /\ rResult' = [kind |-> "return", value |-> rCalls + 1]
  /\ rPc' = "loop"
  /\ rI' = rI + 1
  /\ UNCHANGED <<sideVars, concVars, waitVars, rMax, rDelay, rLastError, rSlept, rLastSleep>>
RetryFnReturns ==
  /\ rPc = "loop"
  /\ RetryLoopCond(rI, rMax)
  /\ rCalls' = rCalls + 1
  /\ rResult' = [kind |-> "return", value |-> rCalls + 1]
  /\ rPc' = "returned"
  /\ UNCHANGED <<sideVars, concVars, waitVars, rMax, rDelay, rI, rLastError, rSlept, rLastSleep>>

\* fn is invoked and fails: lastError = error, and either the sleep before
\* the next round or, without sleep, the next round
RetryFnFails ==
  /\ rPc = "loop"
  /\ RetryLoopCond(rI, rMax)
  /\ rCalls' = rCalls + 1
  /\ rLastError' = rCalls + 1
  /\ IF RetryHasNext(rI, rMax)
     THEN rPc' = "sleeping" /\ rI' = rI
     ELSE rPc' = "loop" /\ rI' = rI + 1
  /\ UNCHANGED <<sideVars, concVars, waitVars, rMax, rDelay, rSlept, rLastSleep, rResult>>

\* await sleep(delay * (i + 1)), then i++
RetrySleeps ==
  /\ rPc = "sleeping"
  /\ rLastSleep' = RetryDelay(rI, rDelay)
  /\ rSlept' = rSlept + RetryDelay(rI, rDelay)
  /\ rI' = rI + 1
  /\ rPc' = "loop"
  /\ UNCHANGED <<sideVars, concVars, waitVars, rMax, rDelay, rCalls, rLastError, rResult>>

\* the loop is over: throw lastError
RetryThrows ==
  /\ rPc = "loop"
  /\ ~RetryLoopCond(rI, rMax)
  /\ rResult' = [kind |-> "throw", value |-> rLastError]
  /\ rPc' = "thrown"
  /\ UNCHANGED <<sideVars, concVars, waitVars, rMax, rDelay, rI, rCalls, rLastError, rSlept,
                 rLastSleep>>

RetryNext ==
  \/ RetryFnReturns
  \/ RetryFnFails
  \/ RetrySleeps
  \/ RetryThrows

RetrySpec == RetryInit /\ [][RetryNext]_vars

(* ---------------- bytesToHex and hexToBytes ---------------- *)
\* a string is the sequence of its characters
HexChars == <<"0", "1", "2", "3", "4", "5", "6", "7", "8", "9", "a", "b",
              "c", "d", "e", "f">>
UpperHexChars == <<"0", "1", "2", "3", "4", "5", "6", "7", "8", "9", "A",
                   "B", "C", "D", "E", "F">>

\* the byte arrays and the hex strings (without prefix) the functions are
\* called with
ByteValues == {0, 9, 16, 128, 255}
HexAlphabet == {"0", "7", "a", "F"}
SeqsUpTo(S, n) == UNION {[1..k -> S] : k \in 0..n}

\* n.toString(16), n >= 0
RECURSIVE ToString16(_)
ToString16(n) ==
  IF n < 16 THEN <<HexChars[n + 1]>>
  ELSE ToString16(n \div 16) \o <<HexChars[(n % 16) + 1]>>

\* str.padStart(width, c)
RECURSIVE PadStart(_, _, _)
PadStart(str, width, c) ==
  IF Len(str) >= width THEN str ELSE PadStart(<<c>> \o str, width, c)

\* b.toString(16).padStart(2, "0")
ByteHexNoPad(b) == ToString16(b)
ByteHex(b) == PadStart(ToString16(b), 2, "0")

\* "0x" + Array.from(bytes).map(...).join("")
RECURSIVE JoinBytes(_)
JoinBytes(bytes) ==
  IF bytes = <<>> THEN <<>>
  ELSE ByteHex(Head(bytes)) \o JoinBytes(Tail(bytes))

bytesToHex(bytes) == <<"0", "x">> \o JoinBytes(bytes)

\* str.startsWith("0x") and str.slice(k)
StartsWith0x(str) == Len(str) >= 2 /\ str[1] = "0" /\ str[2] = "x"
Slice(str, k) == SubSeq(str, k + 1, Len(str))

\* parseInt(str, 16) for a string of hex digits of either case
HexValue(c) ==
  CHOOSE k \in 0..15 : HexChars[k + 1] = c \/ UpperHexChars[k + 1] = c
RECURSIVE ParseInt16(_)
ParseInt16(str) ==
  IF Len(str) = 1 THEN HexValue(str[1])
  ELSE 16 * ParseInt16(SubSeq(str, 1, Len(str) - 1)) + HexValue(str[Len(str)])

\* hexToBytes: the array has cleanHex.length / 2 elements (the length of a
\* typed array is truncated to an integer), bytes[i / 2] is set from
\* cleanHex.substr(i, 2) for i = 0, 2, ..., and a write past the end of the
\* array has no effect
hexToBytes(hex) ==
  LET cleanHex == IF StartsWith0x(hex) THEN Slice(hex, 2) ELSE hex
  IN  [k \in 1..(Len(cleanHex) \div 2) |->
         ParseInt16(SubSeq(cleanHex, 2 * k - 1, 2 * k))]

\* everything but util stays as it is, no other call being under way
UtilFrame == UNCHANGED <<waitVars, retryVars, concVars, api, sdk, again>>

\* no call of waitForConfirmation
WaitIdle ==
  /\ impl = "evm"
  /\ maxConfirmations = 1
  /\ status = "confirmed"
  /\ timeout = 0
  /\ now = 0
  /\ startTime = 0
  /\ pc = "idle"
  /\ i = 0
  /\ retryOf = "none"
  /\ branch = "none"
  /\ sig = NoSig
  /\ outcome = NoOutcome
  /\ caller = "none"
  /\ callerOutcome = NoOutcome
  /\ polls = 0
  /\ failsThisPoll = 0
  /\ fetch = "none"
  /\ currentBlock = -1
  /\ prevConf = -1
  /\ growing = TRUE
  /\ allFailed = TRUE
  /\ timeoutSignals = 0
  /\ inFlight = 0
  /\ timeoutInfo = NoTimeoutInfo

\* a byte array to convert and convert back, or a hex string to convert with
\* and without its prefix
HexCalls ==
  [op : {"roundtrip"}, pc : {"start"}, bytes : SeqsUpTo(ByteValues, MaxBytes),
   hex : {<<>>}, decoded : {<<>>}, decodedPlain : {<<>>}]
  \cup
  [op : {"prefix"}, pc : {"start"}, bytes : {<<>>},
   hex : SeqsUpTo(HexAlphabet, MaxHexLen), decoded : {<<>>},
   decodedPlain : {<<>>}]

(* ---------------- wrapTransactionWithFee ---------------- *)
\* c.repeat(n)
Repeat(c, n) == [k \in 1..n |-> c]

\* the width of one encoded word, in hex digits
WordDigits == 64
AddressDigits == 40

\* originalTxData: a string, with or without the prefix 0x, or a byte array
TxDatas ==
  [kind : {"string"},
   val : {<<"0", "x">> \o h : h \in SeqsUpTo(HexAlphabet, 2)}
         \cup SeqsUpTo(HexAlphabet, 2)]
  \cup [kind : {"bytes"}, val : SeqsUpTo(ByteValues, MaxBytes)]

\* config: feeAmount is a decimal string or a bigint, feeToken is optional
NoToken == <<"u", "n", "d", "e", "f", "i", "n", "e", "d">>
FeeConfigs ==
  [feeRecipient : {<<"0", "x">> \o Repeat("1", AddressDigits)},
   feeAmount : [kind : {"string", "bigint"}, n : {1, 255, 4096}],
   feeToken : {NoToken, <<"0", "x">> \o Repeat("2", AddressDigits)}]

\* config.feeToken as a condition: undefined is falsy, an address is truthy
Truthy(str) == str # NoToken /\ str # <<>>

\* encodeFeeConfig: BigInt(feeAmount).toString(16).padStart(64, '0') followed
\* by (config.feeToken || '0'.repeat(64)).slice(2)
encodeFeeConfig(config) ==
  LET feeAmount == PadStart(ToString16(config.feeAmount.n), WordDigits, "0")
      feeToken == IF Truthy(config.feeToken) THEN config.feeToken
                  ELSE Repeat("0", WordDigits)
  IN  feeAmount \o Slice(feeToken, 2)

\* `0x${originalData.slice(2)}${encodeFeeConfig(config)}`
encodeFeeWrapperCall(originalData, config) ==
  <<"0", "x">> \o Slice(originalData, 2) \o encodeFeeConfig(config)

wrapTransactionWithFee(originalTxData, config) ==
  LET data == IF originalTxData.kind = "string" THEN originalTxData.val
              ELSE bytesToHex(originalTxData.val)
  IN  [data |-> encodeFeeWrapperCall(data, config),
       to |-> config.feeRecipient,
       value |-> IF Truthy(config.feeToken) THEN <<"0">>
                 ELSE config.feeAmount]

WrapCalls ==
  [op : {"wrap"}, pc : {"start"}, originalTxData : TxDatas,
   config : FeeConfigs, result : {NoCall}]

\* result = wrapTransactionWithFee(originalTxData, config)
UtilWrap ==
  /\ util.pc = "start"
  /\ util.op = "wrap"
  /\ util' = [util EXCEPT
                !.result = wrapTransactionWithFee(util.originalTxData,
                                                  util.config),
                !.pc = "done"]
  /\ UtilFrame

UtilInit ==
  /\ util \in HexCalls \cup WrapCalls
  /\ api = NoCall
  /\ WaitIdle
  /\ RetryIdle
  /\ ConcIdle
  /\ SdkIdle

\* hex = bytesToHex(bytes)
UtilBytesToHex ==
  /\ util.pc = "start"
  /\ util.op = "roundtrip"
  /\ util' = [util EXCEPT !.hex = bytesToHex(util.bytes), !.pc = "encoded"]
  /\ UtilFrame

\* hexToBytes(hex) of the string just produced
UtilHexToBytes ==
  /\ util.pc = "encoded"
  /\ util' = [util EXCEPT !.decoded = hexToBytes(util.hex), !.pc = "done"]
  /\ UtilFrame

\* hexToBytes("0x" + hex) and hexToBytes(hex)
UtilHexToBytesBoth ==
  /\ util.pc = "start"
  /\ util.op = "prefix"
  /\ util' = [util EXCEPT !.decoded = hexToBytes(<<"0", "x">> \o util.hex),
                          !.decodedPlain = hexToBytes(util.hex),
                          !.pc = "done"]
  /\ UtilFrame

UtilNext ==
  \/ UtilBytesToHex
  \/ UtilHexToBytes
  \/ UtilHexToBytesBoth
  \/ UtilWrap

UtilSpec == UtilInit /\ [][UtilNext]_vars

(* ---------------- send, sendRawTransaction, receive, getTransactionStatus ---------------- *)
ApiMethods(im) ==
  IF im = "evm"
  THEN {"send", "sendRawTransaction", "receive", "getTransactionStatus"}
  ELSE {"send", "receive", "getTransactionStatus"}

\* the arguments of a call, by what the checks of the methods tell apart;
\* from is the wallet (EVM) or the sender keypair (Solana)
ApiArgs(m) ==
  IF m = "send"
  THEN [from : {"ok", "missing"}, to : {"ok", "invalid"},
        amount : {"positive", "zero"}, token : {"none", "ok", "invalid"},
        data : {"none"}, txHash : {"none"}]
  ELSE IF m = "sendRawTransaction"
  THEN [from : {"ok", "missing"}, to : {"ok", "invalid"}, amount : {"none"},
        token : {"none"}, data : {"ok", "empty"}, txHash : {"none"}]
  ELSE [from : {"none"}, to : {"none"}, amount : {"none"}, token : {"none"},
        data : {"none"}, txHash : {"ok", "invalid", "empty"}]

\* the error thrown between the entry of the method and its first await,
\* "none" when the code reaches that await
EvmChecks(m, a) ==
  IF m \in {"send", "sendRawTransaction"}
  THEN IF a.to = "invalid" THEN "ValidationError"
       ELSE IF m = "send" /\ a.amount = "zero" THEN "ValidationError"
       ELSE IF m = "send" /\ a.token = "invalid" THEN "ValidationError"
       ELSE IF m = "sendRawTransaction" /\ a.data = "empty"
       THEN "ValidationError"
       ELSE IF a.from = "missing" THEN "TypeError"
       ELSE "none"
  ELSE IF a.txHash # "ok" THEN "ValidationError" ELSE "none"

SolanaChecks(m, a) ==
  IF m = "send"
  THEN IF a.from = "missing" THEN "ValidationError"
       ELSE IF a.amount = "zero" THEN "ValidationError"
       ELSE IF a.to = "invalid" THEN "ValidationError"
       ELSE IF a.token = "invalid" THEN "ValidationError"
       ELSE "none"
  ELSE IF a.txHash = "empty" THEN "ValidationError" ELSE "none"

LegacyChecks(m, a) ==
  IF m = "send"
  THEN IF a.to = "invalid" THEN "Error"
       ELSE IF a.token = "invalid" THEN "Error"
       ELSE IF a.from = "missing" THEN "TypeError"
       ELSE "none"
  ELSE "none"

Checks(im, m, a) ==
  IF im = "evm" THEN EvmChecks(m, a)
  ELSE IF im = "solana" THEN SolanaChecks(m, a)
  ELSE LegacyChecks(m, a)

\* the catch block of the method: what reaches the caller for an error
ApiCatch(im, m, name) ==
  IF im = "legacy" THEN name
  ELSE IF m \in {"send", "sendRawTransaction"}
  THEN IF name \in {"ValidationError", "TransactionError"} THEN name
       ELSE "TransactionError"
  ELSE IF name = "ValidationError" THEN name ELSE "RPCError"

ApiThrown(name) == [kind |-> "throw", name |-> name]
ApiReturned(name) == [kind |-> "return", name |-> name]

ApiCalls ==
  UNION {[impl : {im}, method : {m}, args : ApiArgs(m), pc : {"start"},
          submitted : {0}, queries : {0}, statusQueries : {0},
          answer : {"none"},
          result : {[kind |-> "none", name |-> "none"]}] :
         <<im, m>> \in {x \in Impls \X {"send", "sendRawTransaction",
                                        "receive", "getTransactionStatus"} :
                          x[2] \in ApiMethods(x[1])}}

ApiFrame == UNCHANGED <<waitVars, retryVars, concVars, util, sdk, again>>

ApiInit ==
  /\ api \in ApiCalls
  /\ util = NoCall
  /\ WaitIdle
  /\ RetryIdle
  /\ ConcIdle
  /\ SdkIdle

\* from the entry of the method to its first await or to the error thrown
\* before it
ApiValidate ==
  /\ api.pc = "start"
  /\ LET err == Checks(api.impl, api.method, api.args) IN
       IF err # "none"
       THEN api' = [api EXCEPT
                      !.pc = "thrown",
                      !.result = ApiThrown(ApiCatch(api.impl, api.method,
                                                    err))]
       ELSE IF api.method \in {"receive", "getTransactionStatus"}
       THEN api' = [api EXCEPT !.pc = "query", !.queries = 1,
                               !.statusQueries = @ + 1]
       ELSE IF api.impl # "evm" /\ api.args.token = "ok"
       THEN api' = [api EXCEPT !.pc = "accounts"]
       ELSE api' = [api EXCEPT !.pc = "submit", !.submitted = 1]
  /\ ApiFrame

\* Solana: getOrCreateAssociatedTokenAccount for sender and recipient
ApiTokenAccounts ==
  /\ api.pc = "accounts"
  /\ \E ok \in BOOLEAN :
       IF ok THEN api' = [api EXCEPT !.pc = "submit", !.submitted = 1]
       ELSE api' = [api EXCEPT
                      !.pc = "thrown",
                      !.result = ApiThrown(IF api.impl = "legacy" THEN "Error"
                                           ELSE "TransactionError")]
  /\ ApiFrame

\* sendTransaction / sendAndConfirmTransaction settles; the method then calls
\* waitForConfirmation, whose first status query is issued at once, or
\* returns a pending result when options.waitForConfirmation is false
ApiSubmitSettles ==
  /\ api.pc = "submit"
  /\ \E ok \in BOOLEAN, wait \in BOOLEAN :
       IF ~ok
       THEN api' = [api EXCEPT
                      !.pc = "thrown",
                      !.result = ApiThrown(IF api.impl = "legacy" THEN "Error"
                                           ELSE "TransactionError")]
       ELSE IF wait
       THEN api' = [api EXCEPT !.pc = "waiting", !.queries = 1]
       ELSE api' = [api EXCEPT !.pc = "returned",
                               !.result = ApiReturned("pending")]
  /\ ApiFrame

\* what the endpoint may answer to the query: an error, null, a transaction
\* that succeeded, one that failed, and (Solana) one that succeeded and whose
\* status carries slot 0
QueryAnswers(im) ==
  IF im = "evm" THEN {"error", "null", "found", "failed"}
  ELSE {"error", "null", "found", "failed", "noslot"}

\* getTransactionStatus: what follows the answer of the status query, a
\* returned status or the block fetch
StatusOnAnswerNoSlotCheck(im, ans) ==
  IF ans = "null" THEN "pending"
  ELSE IF ans = "failed" /\ im # "evm" THEN "failed"
  ELSE "block"
StatusOnAnswer(im, ans) ==
  IF ans = "null" THEN "pending"
  ELSE IF ans = "failed" /\ im # "evm" THEN "failed"
  ELSE IF ans = "noslot" /\ im = "solana" THEN "pending"
  ELSE "block"

\* getTransactionReceipt / getParsedTransaction / getSignatureStatus settles
ApiQuerySettles ==
  /\ api.pc = "query"
  /\ \E ans \in QueryAnswers(api.impl) :
       IF ans = "error"
       THEN api' = [api EXCEPT
                      !.pc = "thrown",
                      !.answer = ans,
                      !.result = ApiThrown(ApiCatch(api.impl, api.method,
                                                    "Error"))]
       ELSE IF api.method = "receive"
       THEN api' = [api EXCEPT
                      !.pc = "returned",
                      !.answer = ans,
                      !.result = ApiReturned(IF ans = "null" THEN "null"
                                             ELSE "receipt")]
       ELSE IF StatusOnAnswer(api.impl, ans) # "block"
       THEN api' = [api EXCEPT
                      !.pc = "returned",
                      !.answer = ans,
                      !.result = ApiReturned(StatusOnAnswer(api.impl, ans))]
       ELSE api' = [api EXCEPT !.pc = "block", !.answer = ans,
                               !.queries = 2]
  /\ ApiFrame

\* getTransactionStatus: getBlockNumber / getBlock settles
ApiBlockSettles ==
  /\ api.pc = "block"
  /\ \E ok \in BOOLEAN :
       IF ~ok
       THEN api' = [api EXCEPT
                      !.pc = "thrown",
                      !.result = ApiThrown(ApiCatch(api.impl, api.method,
                                                    "Error"))]
       ELSE api' = [api EXCEPT
                      !.pc = "returned",
                      !.result = ApiReturned(IF api.answer = "failed"
                                             THEN "failed" ELSE "confirmed")]
  /\ ApiFrame

ApiNext ==
  \/ ApiValidate
  \/ ApiTokenAccounts
  \/ ApiSubmitSettles
  \/ ApiQuerySettles
  \/ ApiBlockSettles

ApiSpec == ApiInit /\ [][ApiNext]_vars

(* ---------------- a send-style method and its confirmation wait ---------------- *)
\* options.waitForConfirmation: false, true or not given
WaitOptions == {"false", "true", "undefined"}

\* if (options.waitForConfirmation !== false)
WaitsForConfirmation(opt) == opt # "false"

\* a call of a send-style method whose arguments have passed the checks and
\* whose transaction is being submitted
SendCalls(im) ==
  [impl : {im}, method : Callers(im) \ {"direct"}, option : WaitOptions,
   pc : {"submit"}, submitted : {0}, waits : {0}, result : {NoOutcome}]

\* the method awaits the submission; waitForConfirmation has not been called,
\* its arguments are options.maxConfirmations, options.confirmationStatus
\* and options.confirmationTimeout
SendInit ==
  /\ impl \in {"evm", "solana"}
  /\ maxConfirmations \in 1..2
  /\ status = "confirmed"
  /\ timeout = 1
  /\ now = 0
  /\ startTime = 0
  /\ pc = "idle"
  /\ i = 0
  /\ retryOf = "none"
  /\ branch = "none"
  /\ sig = NoSig
  /\ outcome = NoOutcome
  /\ caller = "none"
  /\ callerOutcome = NoOutcome
  /\ polls = 0
  /\ failsThisPoll = 0
  /\ fetch = "none"
  /\ currentBlock = -1
  /\ prevConf = -1
  /\ growing = TRUE
  /\ allFailed = TRUE
  /\ timeoutSignals = 0
  /\ inFlight = 0
  /\ timeoutInfo = NoTimeoutInfo
  /\ RetryIdle
  /\ ConcIdle
  /\ util = NoCall
  /\ sdk = SdkFields(impl, "confirmed")
  /\ again = NoCall
  /\ api \in SendCalls(impl)

\* sendTransaction (EVM) or sendAndConfirmTransaction (Solana) settles: an
\* error is thrown as TransactionError; after a success the method returns
\* the pending result or calls waitForConfirmation
SendSubmitSettles ==
  /\ api.pc = "submit"
  /\ pc = "idle"
  /\ \E ok \in BOOLEAN :
       IF ~ok
       THEN /\ api' = [api EXCEPT !.pc = "thrown",
                                  !.result = Thrown("TransactionError",
                                                    "failed")]
            /\ UNCHANGED <<pc, caller>>
       ELSE IF WaitsForConfirmation(api.option)
       THEN /\ api' = [api EXCEPT !.pc = "waiting", !.submitted = 1,
                                  !.waits = @ + 1]
            /\ pc' = "loop"
            /\ caller' = api.method
       ELSE /\ api' = [api EXCEPT !.pc = "returned", !.submitted = 1,
                                  !.result = Returned("pending", -1,
                                                      "undefined", -1)]
            /\ UNCHANGED <<pc, caller>>
  /\ UNCHANGED <<params, now, thisPoll, outcome, callerOutcome, polls,
                 prevConf, growing, allFailed, timeoutSignals, inFlight,
                 timeoutInfo, retryVars, concVars, util, sdk, again>>

\* return await this.waitForConfirmation(...): its result is returned, its
\* error goes through the catch block of the method
SendReturns ==
  /\ api.pc = "waiting"
  /\ pc = "ended"
  /\ pc' = "delivered"
  /\ callerOutcome' = CallerCatch(impl, api.method, outcome)
  /\ api' = [api EXCEPT
               !.pc = (IF callerOutcome'.kind = "throw" THEN "thrown"
                       ELSE "returned"),
               !.result = callerOutcome']
  /\ UNCHANGED <<params, now, thisPoll, outcome, caller, polls, prevConf,
                 growing, allFailed, timeoutSignals, inFlight, timeoutInfo,
                 retryVars, concVars, util, sdk, again>>

SendNext ==
  \/ SendSubmitSettles
  \/ BeginPoll
  \/ TimeoutReached
  \/ StatusFails
  \/ StatusAnswers
  \/ Backoff
  \/ BlockFails
  \/ EvmBlockAnswers
  \/ SolanaBlockAnswers
  \/ Sleep
  \/ SendReturns

SendSpec == SendInit /\ [][SendNext]_vars

(* ---------------- a second call for the same handle ---------------- *)
\* what the endpoint answers in one poll: how many status queries fail
\* before one answers (RetryAttempts: all fail), the status answer, how many
\* block fetches fail, the block answer
ScriptedPolls(im) ==
  IF im = "evm"
  THEN [fails : {0, 1, RetryAttempts},
        answer : {NullAnswer} \cup
                 [found : {TRUE}, err : {FALSE}, level : {"none"},
                  slot : 1..2, confirmations : {0}] \cup
                 [found : {TRUE}, err : {TRUE}, level : {"none"},
                  slot : {1}, confirmations : {0}],
        bfails : {0, 1},
        block : 1..2]
  ELSE [fails : {0, 1, RetryAttempts},
        answer : {NullAnswer} \cup
                 [found : {TRUE}, err : {FALSE},
                  level : {"processed", "confirmed"}, slot : {1},
                  confirmations : {1}] \cup
                 [found : {TRUE}, err : {TRUE}, level : {"confirmed"},
                  slot : {1}, confirmations : {1}],
        bfails : {0, RetryAttempts},
        block : {"null", "block"}]

\* the endpoint's answers to a call: those of its first poll and those of
\* every later poll
Scripts(im) == [1..2 -> ScriptedPolls(im)]

\* the answers of the poll that runs
ScriptAt == again.script[IF polls <= 1 THEN 1 ELSE 2]

\* the first call has just begun on an SDK with any commitment; the endpoint
\* answers by a script that does not depend on which call asks
AgainInit ==
  /\ WaitInit
  /\ impl \in {"evm", "solana"}
  /\ timeout \in {1, MaxTimeout + 1}
  /\ status = "confirmed"
  /\ maxConfirmations \in 1..2
  /\ RetryIdle
  /\ ConcIdle
  /\ util = NoCall
  /\ api = NoCall
  /\ sdk \in {SdkFields(impl, c) : c \in Levels}
  /\ again \in [pc : {"call"}, n : {1}, first : {NoOutcome},
                script : Scripts(impl)]

\* the status query fails as the script says
AgainStatusFails == StatusFails /\ i < ScriptAt.fails

\* the status query answers as the script says
AgainStatusAnswers ==
  /\ StatusAnswers
  /\ i >= ScriptAt.fails
  /\ sig' = ScriptAt.answer

\* the block fetch fails as the script says
AgainBlockFails == BlockFails /\ i < ScriptAt.bfails

\* the block fetch answers as the script says
AgainEvmBlockAnswers ==
  /\ EvmBlockAnswers
  /\ i >= ScriptAt.bfails
  /\ currentBlock' = ScriptAt.block
AgainSolanaBlockAnswers ==
  /\ SolanaBlockAnswers
  /\ i >= ScriptAt.bfails
  /\ outcome'.blockHash = BlockHashOf(ScriptAt.block)

\* the first call has ended; waitForConfirmation is called again with the
\* same arguments: const startTime = Date.now(), new locals, the fields of
\* the SDK as the first call left them
CallAgainKeepsStart ==
  /\ pc = "ended"
  /\ again.n = 1
  /\ again' = [again EXCEPT !.n = 2, !.first = outcome]
  /\ startTime' = startTime
  /\ pc' = "loop"
  /\ i' = 0
  /\ retryOf' = "none"
  /\ branch' = "none"
  /\ sig' = NoSig
  /\ outcome' = NoOutcome
  /\ polls' = 0
  /\ failsThisPoll' = 0
  /\ fetch' = "none"
  /\ currentBlock' = -1
  /\ prevConf' = -1
  /\ growing' = TRUE
  /\ allFailed' = TRUE
  /\ timeoutSignals' = 0
  /\ inFlight' = 0
  /\ timeoutInfo' = NoTimeoutInfo
  /\ UNCHANGED <<impl, maxConfirmations, status, timeout, now, callerVars,
                 retryVars, concVars, util, api, sdk>>
CallAgain ==
  /\ pc = "ended"
  /\ again.n = 1
  /\ again' = [again EXCEPT !.n = 2, !.first = outcome]
  /\ startTime' = now
  /\ pc' = "loop"
  /\ i' = 0
  /\ retryOf' = "none"
  /\ branch' = "none"
  /\ sig' = NoSig
  /\ outcome' = NoOutcome
  /\ polls' = 0
  /\ failsThisPoll' = 0
  /\ fetch' = "none"
  /\ currentBlock' = -1
  /\ prevConf' = -1
  /\ growing' = TRUE
  /\ allFailed' = TRUE
  /\ timeoutSignals' = 0
  /\ inFlight' = 0
  /\ timeoutInfo' = NoTimeoutInfo
  /\ UNCHANGED <<impl, maxConfirmations, status, timeout, now, callerVars,
                 retryVars, concVars, util, api, sdk>>

AgainNext ==
  \/ BeginPoll
  \/ TimeoutReached
  \/ AgainStatusFails
  \/ AgainStatusAnswers
  \/ Backoff
  \/ AgainBlockFails
  \/ AgainEvmBlockAnswers
  \/ AgainSolanaBlockAnswers
  \/ Sleep
  \/ CallAgain

AgainSpec == AgainInit /\ [][AgainNext]_vars

(* ---------------- two calls on distinct handles ---------------- *)
\* the arguments and locals of the call whose code runs (lines 336-348:
\* parameters, const startTime, the locals of the loop body and of retry())
Locals ==
  [impl |-> impl,
   maxConfirmations |-> maxConfirmations,
   status |-> status,
   timeout |-> timeout,
   now |-> now,
   startTime |-> startTime,
   pc |-> pc,
   i |-> i,
   retryOf |-> retryOf,
   branch |-> branch,
   sig |-> sig,
   outcome |-> outcome,
   caller |-> caller,
   callerOutcome |-> callerOutcome,
   polls |-> polls,
   failsThisPoll |-> failsThisPoll,
   fetch |-> fetch,
   currentBlock |-> currentBlock,
   prevConf |-> prevConf,
   growing |-> growing,
   allFailed |-> allFailed,
   timeoutSignals |-> timeoutSignals,
   inFlight |-> inFlight,
   timeoutInfo |-> timeoutInfo]

\* a call of the EVM SDK that has just begun at time t
FreshEvmCall(maxC, t) ==
  [impl |-> "evm", maxConfirmations |-> maxC, status |-> "confirmed",
   timeout |-> 1, now |-> t, startTime |-> t, pc |-> "loop", i |-> 0,
   retryOf |-> "none", branch |-> "none", sig |-> NoSig,
   outcome |-> NoOutcome, caller |-> "none", callerOutcome |-> NoOutcome,
   polls |-> 0, failsThisPoll |-> 0, fetch |-> "none", currentBlock |-> -1,
   prevConf |-> -1, growing |-> TRUE, allFailed |-> TRUE,
   timeoutSignals |-> 0, inFlight |-> 0, timeoutInfo |-> NoTimeoutInfo]

\* the first call is any call of the EVM SDK or of the current Solana SDK
\* with a timeout of one second; the second is a call of the EVM SDK that
\* begins one poll interval later
ConcInit ==
  /\ WaitInit
  /\ impl \in {"evm", "solana"}
  /\ timeout = 1
  /\ status = "confirmed"
  /\ maxConfirmations \in 1..2
  /\ RetryIdle
  /\ SideIdle
  /\ turn = 1
  /\ other \in {FreshEvmCall(maxC, EvmPollMs) : maxC \in 1..2}

\* what a call finds in its arguments and locals when its code runs again:
\* they are parameters and consts of its own invocation
ResumeSharedStart(own, cur) == [own EXCEPT !.startTime = cur.startTime]
Resume(own, cur) == own

\* the running call is suspended at its await and the other call runs
Switch ==
  /\ turn \in {1, 2}
  /\ LET r == Resume(other, Locals) IN
       /\ impl' = r.impl
       /\ maxConfirmations' = r.maxConfirmations
       /\ status' = r.status
       /\ timeout' = r.timeout
       /\ now' = r.now
       /\ startTime' = r.startTime
       /\ pc' = r.pc
       /\ i' = r.i
       /\ retryOf' = r.retryOf
       /\ branch' = r.branch
       /\ sig' = r.sig
       /\ outcome' = r.outcome
       /\ caller' = r.caller
       /\ callerOutcome' = r.callerOutcome
       /\ polls' = r.polls
       /\ failsThisPoll' = r.failsThisPoll
       /\ fetch' = r.fetch
       /\ currentBlock' = r.currentBlock
       /\ prevConf' = r.prevConf
       /\ growing' = r.growing
       /\ allFailed' = r.allFailed
       /\ timeoutSignals' = r.timeoutSignals
       /\ inFlight' = r.inFlight
       /\ timeoutInfo' = r.timeoutInfo
  /\ other' = Locals
  /\ turn' = 3 - turn
  /\ UNCHANGED <<sideVars, retryVars>>

ConcNext == Next \/ Switch

ConcSpec == ConcInit /\ [][ConcNext]_vars

\* every call of the endpoint returns or fails, and timers fire
FairSpec == Spec /\ WF_vars(Next)

(* ---------------- properties ---------------- *)
Ended == pc \in {"ended", "delivered"}

\* the current poll iteration has run to its end
PollOver == pc \in {"sleep", "ended", "delivered"}

ConfirmedReturned == outcome.kind = "return" /\ outcome.status = "confirmed"

\* Solana implementations
Sol == impl \in {"solana", "legacy"}

\* C1: a call that ends at the deadline signals TimeoutError exactly once and
\* never returns a result whose status is pending.
C1_TimeoutIsSignalled ==
  /\ (timeoutSignals > 0 =>
        /\ timeoutSignals = 1
        /\ outcome.kind = "throw"
        /\ outcome.name = "TimeoutError")
  /\ ~(outcome.kind = "return" /\ outcome.status = "pending")

\* C2: a poll whose status answer carries a chain error ends the call with
\* the failure outcome in that same iteration, for every requested count.
C2_ChainErrorEndsCall ==
  (sig.found /\ sig.err /\ PollOver) => (Ended /\ outcome = ChainFailure(impl))

\* C3 as stated: a chain-reported failure is returned as a result with status
\* failed, and the only error raised is the timeout.
C3_FailureIsReturned ==
  /\ (outcome.kind = "throw" => outcome.name = "TimeoutError")
  /\ ((Ended /\ sig.found /\ sig.err) =>
        (outcome.kind = "return" /\ outcome.status = "failed"))

\* C3 as amended: the EVM SDK and the current Solana SDK raise a
\* TransactionError with status failed for a chain-reported failure and never
\* return a result with status failed; a TransactionError is raised only in a
\* poll whose status carried the chain error, and the only other error raised
\* is the TimeoutError. The older Solana SDK raises nothing and returns the
\* failure as a result with status failed.
C3_FailureIsRaised ==
  /\ (impl \in {"evm", "solana"} =>
        /\ (outcome.kind = "return" => outcome.status = "confirmed")
        /\ (outcome.kind = "throw" =>
              outcome.name \in {"TransactionError", "TimeoutError"})
        /\ (outcome.name = "TransactionError" =>
              (sig.found /\ sig.err /\ outcome.status = "failed"))
        /\ ((Ended /\ sig.found /\ sig.err) =>
              outcome = Thrown("TransactionError", "failed")))
  /\ (impl = "legacy" =>
        /\ outcome.kind # "throw"
        /\ ((Ended /\ sig.found /\ sig.err) =>
              (outcome.kind = "return" /\ outcome.status = "failed")))

C3_Witness ==
  /\ pc = "ended"
  /\ impl \in {"evm", "solana"}
  /\ sig.err
  /\ outcome = Thrown("TransactionError", "failed")

\* C4: when the wait made by a send-style method ends by timeout, the error
\* that reaches the caller is the TimeoutError, not a TransactionError with
\* status failed.
C4_TimeoutReachesCaller ==
  (pc = "delivered" /\ caller # "direct" /\ outcome.name = "TimeoutError") =>
    (callerOutcome.name = "TimeoutError" /\ callerOutcome.status # "failed")

\* C5 as stated: a Solana wait for finalized never returns a confirmed result
\* on a poll whose reported level is confirmed, whatever maxConfirmations is.
C5_FinalizedNotByConfirmed ==
  (Sol /\ status = "finalized" /\ sig.found /\ sig.level = "confirmed") =>
    ~ConfirmedReturned

\* C5 as amended: a Solana wait for finalized does not return a confirmed
\* result on a poll whose reported level is confirmed, unless maxConfirmations
\* is given and the reported confirmations of that poll reach it.
C5_FinalizedNotByConfirmedLevel ==
  (/\ Sol
   /\ status = "finalized"
   /\ sig.found
   /\ sig.level = "confirmed"
   /\ ~(maxConfirmations # 0 /\ sig.confirmations >= maxConfirmations)) =>
    ~ConfirmedReturned

C5_Witness ==
  /\ impl = "solana"
  /\ status = "finalized"
  /\ sig.found /\ ~sig.err
  /\ sig.level = "confirmed"
  /\ sig.slot = 1
  /\ maxConfirmations = 3
  /\ sig.confirmations = 2
  /\ pc = "sleep"

\* C6: a Solana wait for confirmed returns a confirmed result in the first
\* poll whose status has no error, reports finalized and names a slot, unless
\* the block fetch for that slot fails.
C6_ConfirmedByFinalized ==
  (/\ Sol
   /\ status = "confirmed"
   /\ sig.found /\ ~sig.err
   /\ sig.level = "finalized"
   /\ sig.slot # 0
   /\ PollOver
   /\ fetch # "fail") =>
    (/\ Ended
     /\ ConfirmedReturned
     /\ outcome.blockNumber = sig.slot)

C6_Witness ==
  /\ impl = "solana"
  /\ status = "confirmed"
  /\ maxConfirmations = 0
  /\ sig.found /\ sig.level = "finalized"
  /\ pc = "ended"
  /\ ConfirmedReturned

\* the status of the current poll shows at least one confirmation and no
\* chain error, for a requested count of 1
SeesOneConfirmation ==
  /\ maxConfirmations = 1
  /\ sig.found /\ ~sig.err
  /\ (Sol => sig.confirmations >= 1)

\* C7 as stated: for a requested count of 1, the first poll that sees a status
\* with at least one confirmation and no chain error returns confirmed.
C7_FirstSightConfirms ==
  (SeesOneConfirmation /\ PollOver) => (Ended /\ ConfirmedReturned)

\* C7 as amended: the same, provided that on Solana the status names a
\* non-zero slot and the block fetch for it succeeds.
C7_FirstSightConfirmsWithBlock ==
  (/\ SeesOneConfirmation
   /\ PollOver
   /\ (Sol => (sig.slot # 0 /\ fetch # "fail"))) =>
    (Ended /\ ConfirmedReturned)

C7_Witness ==
  /\ impl = "solana"
  /\ maxConfirmations = 1
  /\ status = "finalized"
  /\ sig.found /\ sig.level = "processed" /\ sig.confirmations = 1
  /\ fetch = "ok"
  /\ pc = "ended"
  /\ ConfirmedReturned

\* C8: EVM, requested count N > 1: a confirmed result is returned exactly in
\* the poll whose confirmations, currentBlock - receipt.blockNumber + 1, are
\* at least N (with no chain error), and it carries that count.
C8_ConfirmedAtCount ==
  (impl = "evm" /\ maxConfirmations > 1) =>
    /\ ((fetch = "ok" /\ ~sig.err
         /\ currentBlock - sig.slot + 1 >= maxConfirmations) =>
          (/\ Ended
           /\ ConfirmedReturned
           /\ outcome.confirmations = currentBlock - sig.slot + 1))
    /\ (outcome.kind = "return" =>
          (/\ ConfirmedReturned
           /\ fetch = "ok"
           /\ currentBlock - sig.slot + 1 >= maxConfirmations
           /\ outcome.confirmations = currentBlock - sig.slot + 1))

\* confirmations 0, 1, 2, 3 on four successive polls, requested count 3
C8_Witness ==
  /\ impl = "evm"
  /\ maxConfirmations = 3
  /\ growing
  /\ polls = 4
  /\ prevConf = 3
  /\ pc = "ended"
  /\ ConfirmedReturned
  /\ outcome.confirmations = 3

\* C9: a status query that fails after its retries is not surfaced: the call
\* sleeps the inter-poll delay and polls again while the deadline is open.
C9_FailedPollSwallowed ==
  [][/\ (pc = "status" /\ failsThisPoll' > failsThisPoll /\ pc' # "backoff") =>
          (pc' = "sleep" /\ outcome' = NoOutcome)
     /\ (pc = "sleep" /\ sig = NoSig) =>
          (pc' = "loop" /\ now' = now + PollMs(impl) /\ outcome' = NoOutcome)
     /\ (pc = "loop" /\ now - startTime < TimeoutMs(impl, timeout)) =>
          pc' = "status"]_vars

\* nine polls in a row failed, and only then the deadline ended the call
C9_Witness ==
  /\ impl = "solana"
  /\ timeout = 0
  /\ allFailed
  /\ polls = 9
  /\ timeoutSignals = 1

\* the status of the current poll meets the target
MeetsTarget ==
  /\ sig.found /\ ~sig.err
  /\ IF impl = "evm"
     THEN \/ maxConfirmations <= 1
          \/ (fetch = "ok" /\ currentBlock - sig.slot + 1 >= maxConfirmations)
     ELSE \/ sig.level = status
          \/ (status = "confirmed" /\ sig.level = "finalized")
          \/ (maxConfirmations # 0 /\ sig.confirmations >= maxConfirmations)

\* the result the poll returns when its first status query answers
FirstTryResult ==
  IF impl = "evm"
  THEN [blockNumber |-> sig.slot,
        confirmations |-> IF maxConfirmations > 1
                          THEN currentBlock - sig.slot + 1 ELSE 1]
  ELSE [blockNumber |-> sig.slot, confirmations |-> sig.confirmations]

\* C10 as stated: after RetryAttempts - 1 failed status queries and an answer
\* that meets the target, the poll returns the confirmed result.
C10_RetriesInvisible ==
  (/\ impl \in {"evm", "solana"}
   /\ failsThisPoll = RetryAttempts - 1
   /\ MeetsTarget
   /\ PollOver) =>
    (Ended /\ ConfirmedReturned)

\* C10 as amended: the same, provided that on Solana the status names a
\* non-zero slot and the block fetch for it succeeds; the result is the one of
\* a first-try answer, and a status query is given up only after
\* RetryAttempts failures.
C10_RetriesInvisibleWithBlock ==
  impl \in {"evm", "solana"} =>
    /\ (/\ failsThisPoll <= RetryAttempts - 1
        /\ MeetsTarget
        /\ PollOver
        /\ (impl = "solana" => (sig.slot # 0 /\ fetch # "fail"))) =>
         (/\ Ended
          /\ ConfirmedReturned
          /\ outcome.blockNumber = FirstTryResult.blockNumber
          /\ outcome.confirmations = FirstTryResult.confirmations)
    /\ (pc = "sleep" /\ sig = NoSig) => failsThisPoll = RetryAttempts

C10_Witness ==
  /\ impl \in {"evm", "solana"}
  /\ failsThisPoll = RetryAttempts - 1
  /\ pc = "ended"
  /\ ConfirmedReturned

(* ---------------- properties of retry() ---------------- *)
\* C16: with maxRetries >= 1 and fn failing every time, fn is invoked exactly
\* maxRetries times and retry fails with the error of the last invocation.
C16_ThrowsLastErrorAfterMaxRetries ==
  (rPc = "thrown" /\ rMax >= 1) =>
    (/\ rCalls = rMax
     /\ rResult = [kind |-> "throw", value |-> rMax])

C16_Witness ==
  /\ rPc = "thrown"
  /\ rMax = 3
  /\ rCalls = 3
  /\ rResult = [kind |-> "throw", value |-> 3]

\* C17: when fn fails k < maxRetries times and then succeeds, retry returns
\* the value of invocation k + 1, fn has been invoked exactly k + 1 times, and
\* fn is never invoked after the success.
C17_ReturnsFirstSuccess ==
  /\ [](rResult.kind = "return" =>
          (/\ rPc = "returned"
           /\ rCalls = rI + 1
           /\ rCalls <= rMax
           /\ rResult.value = rCalls
           /\ rLastError = rCalls - 1))
  /\ [][rResult.kind = "return" => rCalls' = rCalls]_vars

C17_Witness ==
  /\ rPc = "returned"
  /\ rMax = 3
  /\ rLastError = 2
  /\ rCalls = 3
  /\ rResult = [kind |-> "return", value |-> 3]

\* C18: after the failed attempt with index i retry waits delay * (i + 1) when
\* attempts remain and nothing after the last one, so n failed attempts wait
\* delay * n * (n - 1) / 2 in all.
C18_LinearBackoff ==
  /\ []((rPc = "thrown" /\ rMax >= 1) =>
          rSlept = (rDelay * rMax * (rMax - 1)) \div 2)
  /\ [](rPc = "sleeping" => rI < rMax - 1)
  /\ [][rPc = "sleeping" =>
          (/\ rLastSleep' = rDelay * (rI + 1)
           /\ rSlept' = rSlept + rDelay * (rI + 1))]_vars
  /\ [][(rPc = "loop" /\ rLastError' # rLastError /\ rI = rMax - 1) =>
          (rPc' = "loop" /\ rSlept' = rSlept)]_vars

C18_Witness ==
  /\ rPc = "thrown"
  /\ rMax = 4
  /\ rDelay = 10
  /\ rCalls = 4
  /\ rSlept = 60

(* ---------------- outcomes of waitForConfirmation ---------------- *)
\* C12: a completed call of the EVM SDK or of the current Solana SDK ends with
\* a confirmed result, with the chain-reported failure or with the timeout, and
\* with nothing else; no error of an RPC call, of retry() or of the block fetch
\* leaves the call.
C12_ThreeOutcomes ==
  (impl \in {"evm", "solana"}) =>
    /\ (Ended =>
          \/ (/\ outcome.kind = "return"
              /\ outcome.status = "confirmed")
          \/ outcome = Thrown("TransactionError", "failed")
          \/ outcome = Thrown("TimeoutError", "none"))
    /\ (~Ended => outcome = NoOutcome)

C12_Witness ==
  /\ impl = "solana"
  /\ pc = "ended"
  /\ allFailed
  /\ polls >= 2
  /\ outcome = Thrown("TimeoutError", "none")

\* C13: in the current Solana SDK a block fetch that fails after its retries
\* ends the poll without a result and without a failure; the call sleeps the
\* poll interval and, the deadline still open, queries the status again.
C13_BlockFailureDefers ==
  /\ [][(impl = "solana" /\ pc = "block" /\ pc' # "block" /\ fetch' # "ok") =>
          \/ (pc' = "backoff" /\ i < RetryAttempts - 1 /\ outcome' = NoOutcome)
          \/ (/\ pc' = "sleep"
              /\ i = RetryAttempts - 1
              /\ fetch' = "fail"
              /\ outcome' = NoOutcome)]_vars
  /\ [][(impl = "solana" /\ pc = "sleep" /\ fetch = "fail") =>
          (pc' = "loop" /\ now' = now + SolanaPollMs /\ outcome' = NoOutcome)]_vars
  /\ [][(impl = "solana" /\ pc = "loop"
         /\ now - startTime < (IF timeout # 0 THEN timeout * 1000
                               ELSE SolanaDefaultTimeoutMs)) =>
          (pc' = "status" /\ outcome' = NoOutcome)]_vars

C13_Witness ==
  /\ impl = "solana"
  /\ pc = "sleep"
  /\ sig.found
  /\ ~sig.err
  /\ sig.slot # 0
  /\ fetch = "fail"
  /\ i = RetryAttempts - 1
  /\ outcome = NoOutcome

\* C14: a confirmed result has blockNumber, blockHash and confirmations
\* populated.
C14_ConfirmedIsPopulated ==
  ConfirmedReturned =>
    /\ outcome.blockNumber # -1
    /\ outcome.blockHash # "undefined"
    /\ outcome.confirmations # -1

C19_OneCallInFlight ==
  /\ inFlight \in {0, 1}
  /\ (inFlight = 1) = (pc \in {"status", "block"})

C19_Witness ==
  /\ impl = "solana"
  /\ pc = "block"
  /\ i = 2
  /\ failsThisPoll = 2
  /\ inFlight = 1

\* C11: every call ends; a call of the EVM SDK or of the current Solana SDK
\* whose every status query failed ends with the TimeoutError, after the
\* deadline has passed, and with no other error.
C11_Terminates ==
  /\ <>Ended
  /\ []((impl \in {"evm", "solana"} /\ Ended /\ allFailed) =>
          (/\ outcome = Thrown("TimeoutError", "none")
           /\ timeoutSignals = 1
           /\ now - startTime >= (IF timeout # 0 THEN timeout * 1000
                                  ELSE IF impl = "evm" THEN EvmDefaultTimeoutMs
                                  ELSE SolanaDefaultTimeoutMs)))

C11_Witness ==
  /\ impl = "evm"
  /\ timeout = 0
  /\ pc = "ended"
  /\ allFailed
  /\ polls = PollCap
  /\ outcome = Thrown("TimeoutError", "none")

\* C20: with two calls running concurrently on distinct handles, every step
\* is a step the running call takes on its own, leaving the arguments, start
\* time, retry counter and outcome of the suspended call as they are, or a
\* change of the running call that hands each call exactly the state it had;
\* an outcome once produced is never changed.
C20_CallsIndependent ==
  /\ [][turn' = turn => (Next /\ other' = other)]_vars
  /\ [][turn' # turn => (other' = Locals /\ Locals' = other)]_vars
  /\ [][(turn' = turn /\ outcome # NoOutcome) => outcome' = outcome]_vars
  /\ [](now >= startTime /\ other.now >= other.startTime)

C20_Witness ==
  /\ turn = 2
  /\ other.impl = "solana"
  /\ other.startTime = 0
  /\ other.outcome.kind = "return"
  /\ other.polls = 2
  /\ startTime = EvmPollMs
  /\ allFailed
  /\ pc = "ended"
  /\ outcome = Thrown("TimeoutError", "none")

(* ---------------- properties of the utilities ---------------- *)
\* C22: hexToBytes(bytesToHex(b)) is b for every byte array b, the empty one
\* included, and hexToBytes gives the same bytes, one for every two digits,
\* for a hex string with and without the prefix 0x.
C22_HexRoundTrip ==
  /\ (util.pc = "done" /\ util.op = "roundtrip") =>
       (/\ util.decoded = util.bytes
        /\ Len(util.hex) = 2 + 2 * Len(util.bytes))
  /\ (util.pc = "done" /\ util.op = "prefix") =>
       (/\ util.decoded = util.decodedPlain
        /\ Len(util.decoded) = Len(util.hex) \div 2)

C22_Witness ==
  /\ util.pc = "done"
  /\ util.op = "roundtrip"
  /\ util.bytes = <<255, 0, 9>>
  /\ util.hex = <<"0", "x", "f", "f", "0", "0", "0", "9">>
  /\ util.decoded = <<255, 0, 9>>

\* C23: the wrapped transaction goes to config.feeRecipient, has value '0'
\* with a fee token and config.feeAmount without, and its data is the
\* original data (in hex form for a byte array) followed by the encoded fee
\* configuration.
C23_WrapKeepsData ==
  (util.pc = "done" /\ util.op = "wrap") =>
    LET original == IF util.originalTxData.kind = "string"
                    THEN util.originalTxData.val
                    ELSE <<"0", "x">> \o JoinBytes(util.originalTxData.val)
        data == util.result.data
    IN  /\ util.result.to = util.config.feeRecipient
        /\ util.result.value =
             (IF util.config.feeToken # NoToken THEN <<"0">>
              ELSE util.config.feeAmount)
        /\ Len(data) >= Len(original)
        /\ SubSeq(data, 1, Len(original)) = original
        /\ Slice(data, Len(original)) = encodeFeeConfig(util.config)

(* ---------------- properties of the sending and reading methods ---------------- *)
\* the malformed inputs of C21: an invalid recipient, a zero amount, an
\* invalid token address, empty data, an invalid transaction hash, a missing
\* sender keypair (Solana)
Malformed ==
  \/ api.args.to = "invalid"
  \/ api.args.amount = "zero"
  \/ api.args.token = "invalid"
  \/ api.args.data = "empty"
  \/ api.args.txHash \in {"invalid", "empty"}
  \/ (api.impl # "evm" /\ api.args.from = "missing")

\* C21: a call with a malformed input fails with ValidationError before any
\* transaction is submitted and before any status query is issued.
C21_MalformedRejected ==
  (Malformed /\ api.pc # "start") =>
    /\ api.pc = "thrown"
    /\ api.result = [kind |-> "throw", name |-> "ValidationError"]
    /\ api.submitted = 0
    /\ api.queries = 0

LevelReached ==
  \/ sig.level = status
  \/ (status = "confirmed" /\ sig.level = "finalized")

\* the reported confirmations of the current poll reach maxConfirmations
CountReached == maxConfirmations # 0 /\ sig.confirmations >= maxConfirmations

\* the order of the two conditions in the current Solana SDK: the block is
\* fetched for the level condition whenever it holds with a slot, and for the
\* count condition only when the level condition did not ask for it
ConditionsInOrder ==
  /\ branch = "level" => (LevelReached /\ sig.slot # 0)
  /\ branch = "count" =>
       (~(LevelReached /\ sig.slot # 0) /\ CountReached /\ sig.slot # 0)
  /\ (PollOver /\ sig.found /\ ~sig.err /\ branch = "none") =>
       (sig.slot = 0 \/ (~LevelReached /\ ~CountReached))

\* C25 as stated: the level condition is evaluated first, the count condition
\* only when the level condition gave no result, and the count condition
\* returns confirmed whenever maxConfirmations is set and reached with a
\* non-zero slot, whatever level was reported.
C25_CountConditionReturns ==
  (impl = "solana") =>
    /\ ConditionsInOrder
    /\ (/\ PollOver
        /\ sig.found /\ ~sig.err
        /\ CountReached
        /\ sig.slot # 0) => ConfirmedReturned

\* C25 as amended: the same, the result being returned when the block fetch
\* for the slot succeeds.
C25_CountConditionReturnsWithBlock ==
  (impl = "solana") =>
    /\ ConditionsInOrder
    /\ (/\ PollOver
        /\ sig.found /\ ~sig.err
        /\ CountReached
        /\ sig.slot # 0
        /\ fetch # "fail") =>
         (/\ ConfirmedReturned
          /\ outcome.blockNumber = sig.slot
          /\ outcome.confirmations = sig.confirmations)

C25_Witness ==
  /\ impl = "solana"
  /\ status = "finalized"
  /\ maxConfirmations = 2
  /\ sig.found /\ ~sig.err
  /\ sig.level = "processed"
  /\ sig.confirmations = 3
  /\ branch = "count"
  /\ pc = "ended"
  /\ ConfirmedReturned

\* C26: a confirmed result of the EVM SDK for a requested count N > 1 carries
\* confirmations = currentBlock - receipt.blockNumber + 1 >= N, computed in
\* the poll that returns; a poll in which that value is below N, the current
\* block being behind the receipt's block included, returns nothing.
C26_CountReached ==
  (impl = "evm" /\ maxConfirmations > 1) =>
    /\ ConfirmedReturned =>
         (/\ fetch = "ok"
          /\ sig.found /\ ~sig.err
          /\ outcome.confirmations = currentBlock - sig.slot + 1
          /\ outcome.confirmations >= maxConfirmations
          /\ currentBlock >= sig.slot)
    /\ (/\ PollOver
        /\ fetch = "ok"
        /\ currentBlock - sig.slot + 1 < maxConfirmations) =>
         (pc = "sleep" /\ outcome = NoOutcome)

C26_Witness ==
  /\ impl = "evm"
  /\ maxConfirmations = 2
  /\ sig.found /\ ~sig.err
  /\ sig.slot = 2
  /\ fetch = "ok"
  /\ currentBlock = 0
  /\ pc = "sleep"

\* a poll that does not end the call ends in the sleep of one poll interval
\* (2000 ms EVM, 500 ms Solana), the loop check follows that sleep and nothing
\* else, and a poll begins only from the loop check
OneSleepBetweenPolls ==
  /\ [][(pc \in {"status", "block"} /\ pc' \notin {"status", "block", "backoff"})
          => pc' \in {"sleep", "ended"}]_vars
  /\ [][pc = "sleep" =>
          (/\ pc' = "loop"
           /\ now' - now = (IF impl = "evm" THEN EvmPollMs ELSE SolanaPollMs)
           /\ outcome' = NoOutcome)]_vars
  /\ [][(pc' = "loop" /\ pc # "loop") => pc = "sleep"]_vars
  /\ [][(pc' = "status" /\ pc \notin {"status", "backoff"}) => pc = "loop"]_vars
  /\ [][pc = "backoff" =>
          now' - now \in {RetryDelayMs * k : k \in 1..(RetryAttempts - 1)}]_vars

\* C27 as stated: one poll interval is slept between two polls, and that
\* interval is shorter than the backoff delay of the retry policy.
C27_IntervalShorterThanBackoff ==
  /\ OneSleepBetweenPolls
  /\ [][pc = "sleep" => now' - now < RetryDelayMs]_vars

\* C27 as amended: one poll interval is slept between two polls; on Solana it
\* is shorter than every backoff delay, on EVM it is twice the first backoff
\* delay and equal to the second.
C27_IntervalAndBackoff ==
  /\ OneSleepBetweenPolls
  /\ [][(pc = "sleep" /\ impl # "evm") => now' - now < RetryDelayMs]_vars
  /\ [][(pc = "sleep" /\ impl = "evm") =>
          (/\ now' - now = 2 * RetryDelayMs
           /\ now' - now >= RetryDelayMs * (RetryAttempts - 1))]_vars

C27_Witness ==
  /\ impl = "evm"
  /\ pc = "loop"
  /\ polls = 1
  /\ allFailed
  /\ now - startTime = RetryDelayMs + 2 * RetryDelayMs + EvmPollMs

\* C28: waitForConfirmation leaves the fields of the SDK as they were, a
\* second call for the same handle begins with its own start time and with
\* new poll and retry counters, and it ends as the first did when the
\* endpoint answers it as it answered the first.
C28_NoStateAcrossCalls ==
  /\ [][sdk' = sdk]_vars
  /\ [][(again.n = 1 /\ again'.n = 2) =>
          (/\ startTime' = now'
           /\ pc' = "loop"
           /\ i' = 0
           /\ polls' = 0
           /\ failsThisPoll' = 0
           /\ sig' = NoSig
           /\ outcome' = NoOutcome)]_vars
  /\ []((again.n = 2 /\ pc = "ended") => outcome = again.first)

C28_Witness ==
  /\ again.pc = "call"
  /\ again.n = 2
  /\ pc = "ended"
  /\ startTime > 0
  /\ polls = 2
  /\ outcome.kind = "return"
  /\ outcome = again.first

\* the timeout the call was configured with, in milliseconds
ConfiguredMs ==
  IF timeout # 0 THEN timeout * 1000
  ELSE IF impl = "evm" THEN EvmDefaultTimeoutMs ELSE SolanaDefaultTimeoutMs

\* C29: the timeout is signalled only at a loop check at which the time
\* elapsed since the start is at least the configured timeout, never while
\* less has elapsed, and never before one status poll has been made.
C29_TimeoutNotEarly ==
  /\ [][(timeoutSignals' # timeoutSignals
         \/ (outcome'.name = "TimeoutError" /\ outcome.name # "TimeoutError"))
          => (/\ pc = "loop"
              /\ now - startTime >= ConfiguredMs
              /\ now' = now
              /\ polls >= 1)]_vars
  /\ []((outcome.name = "TimeoutError" \/ timeoutSignals > 0) =>
          (/\ now - startTime >= ConfiguredMs
           /\ polls >= 1
           /\ timeoutSignals = 1))
  /\ []((pc = "ended" /\ polls = 0) => FALSE)

C29_Witness ==
  /\ impl \in {"evm", "solana"}
  /\ timeout = 1
  /\ outcome = Thrown("TimeoutError", "none")
  /\ now - startTime = 1000
  /\ polls = 2

\* the backoff waits of one retry(fn, 3, 1000): 1000 ms and 2000 ms
RetryBackoffsMs ==
  RetryDelayMs * (((RetryAttempts - 1) * RetryAttempts) \div 2)

\* the waits of the longest poll iteration: the backoffs of its retry()
\* calls (one on EVM, two on Solana) and one inter-poll sleep
LongestIterationMs ==
  IF impl = "evm" THEN RetryBackoffsMs + EvmPollMs
  ELSE 2 * RetryBackoffsMs + SolanaPollMs

\* C30: the timeout is signalled from the loop check only, never from inside
\* a poll iteration; an iteration ends with its own result, with its own
\* failure or in the inter-poll sleep whatever the time is; and the timeout
\* is later than the deadline by less than the waits of one iteration.
C30_DeadlineAtLoopTopOnly ==
  /\ [][pc # "loop" =>
          (/\ timeoutSignals' = timeoutSignals
           /\ (outcome'.name = "TimeoutError" =>
                 outcome.name = "TimeoutError"))]_vars
  /\ [][(pc \in {"status", "block", "backoff"}) =>
          (\/ pc' \in {"status", "block", "backoff", "sleep"}
           \/ (/\ pc' = "ended"
               /\ outcome'.name \in {"TransactionResult", "TransactionError",
                                     "Error"}
               /\ outcome'.status # "pending"))]_vars
  /\ [](timeoutSignals > 0 =>
          (/\ now - startTime >= ConfiguredMs
           /\ now - startTime - ConfiguredMs < LongestIterationMs))

C30_Witness ==
  /\ impl \in {"evm", "solana"}
  /\ timeout = 1
  /\ pc = "ended"
  /\ polls = 1
  /\ outcome.kind = "return"
  /\ outcome.status = "confirmed"
  /\ now - startTime = RetryBackoffsMs
  /\ now - startTime > ConfiguredMs

\* C31: at every loop check the call goes on while the time elapsed is less
\* than timeout * 1000 ms for a non-zero timeout, and less than 60000 ms
\* (EVM) or 30000 ms (Solana) for a timeout of 0 or none, and it times out
\* otherwise; with a timeout of 0 it does not time out at once.
C31_DeadlineFromTimeout ==
  /\ [][pc = "loop" =>
          IF now - startTime <
               (IF timeout # 0 THEN timeout * 1000
                ELSE IF impl = "evm" THEN EvmDefaultTimeoutMs
                ELSE SolanaDefaultTimeoutMs)
          THEN pc' = "status" /\ timeoutSignals' = timeoutSignals
          ELSE pc' = "ended" /\ timeoutSignals' = timeoutSignals + 1]_vars
  /\ []((timeout = 0 /\ timeoutSignals > 0) =>
          (/\ polls >= 1
           /\ now - startTime >=
                (IF impl = "evm" THEN EvmDefaultTimeoutMs
                 ELSE SolanaDefaultTimeoutMs)))

C31_Witness ==
  /\ timeout = 0
  /\ impl = "solana"
  /\ pc = "ended"
  /\ timeoutSignals = 1
  /\ now - startTime = SolanaDefaultTimeoutMs
  /\ polls = PollCap

\* the method has come back to its caller
SendOver == api.pc \in {"returned", "thrown"}

\* with options.waitForConfirmation = false the method returns the pending
\* result after the submission and no poll is made
NoWaitReturnsPending ==
  api.option = "false" =>
    /\ api.waits = 0
    /\ polls = 0
    /\ pc = "idle"
    /\ (api.pc = "returned" =>
          (/\ api.submitted = 1
           /\ api.result = Returned("pending", -1, "undefined", -1)))
    /\ (api.pc = "thrown" => api.submitted = 0)

\* with any other value waitForConfirmation is called once, and only after
\* the submission has succeeded
WaitsOnceAfterSubmission ==
  api.option # "false" =>
    /\ api.waits <= 1
    /\ (api.waits = 1 <=> api.submitted = 1)
    /\ (polls > 0 => api.waits = 1)
    /\ (api.pc = "returned" => api.waits = 1)

\* C32: with options.waitForConfirmation = false the send-style methods
\* return the pending result right after the submission without any poll;
\* otherwise they call waitForConfirmation once after the submission and what
\* reaches their caller is the outcome of that call.
C32_SendReturnsWaitOutcome ==
  /\ NoWaitReturnsPending
  /\ WaitsOnceAfterSubmission
  /\ (api.option # "false" /\ api.waits = 1 /\ SendOver) =>
       api.result = outcome

\* a call of getTransactionStatus of the EVM SDK or of the current Solana SDK
StatusCall ==
  /\ api.pc # "idle"
  /\ api.method = "getTransactionStatus"
  /\ api.impl \in {"evm", "solana"}

\* one status query at most, and no sleep
SingleShot ==
  /\ api.statusQueries <= 1
  /\ api.queries <= 2
  /\ (api.pc \in {"query", "block", "returned"} => api.statusQueries = 1)
  /\ now = 0
  /\ pc = "idle"

\* C33 as stated: getTransactionStatus makes one status query and does not
\* sleep; not found is returned as pending, a chain error as failed, and any
\* other found status as confirmed.
C33_FoundIsConfirmed ==
  StatusCall =>
    /\ SingleShot
    /\ (api.pc = "returned" =>
          (/\ api.result.kind = "return"
           /\ api.result.name =
                (IF api.answer = "null" THEN "pending"
                 ELSE IF api.answer = "failed" THEN "failed"
                 ELSE "confirmed")))

\* C33 as amended: the same, but on Solana a found status without error
\* whose slot is 0 or missing is returned as pending and no block is fetched.
C33_FoundWithSlotIsConfirmed ==
  StatusCall =>
    /\ SingleShot
    /\ (api.pc = "returned" =>
          (/\ api.result.kind = "return"
           /\ api.result.name =
                (IF api.answer = "null" THEN "pending"
                 ELSE IF api.answer = "failed" THEN "failed"
                 ELSE IF api.answer = "noslot" THEN "pending"
                 ELSE "confirmed")))
    /\ (api.answer = "noslot" => (api.pc = "returned" /\ api.queries = 1))

C33_Witness ==
  /\ StatusCall
  /\ api.impl = "solana"
  /\ api.pc = "returned"
  /\ api.answer = "noslot"
  /\ api.queries = 1
  /\ api.result = ApiReturned("pending")

\* C34: every confirmed result of the Solana wait carries as block number
\* the slot of the status answered in the poll that returns, and that slot is
\* not 0; a poll whose status is found without error and has slot 0 asks for
\* no block and ends in the inter-poll sleep, whatever its level and count.
C34_SlotIsBlockNumber ==
  impl = "solana" =>
    /\ ConfirmedReturned =>
         (/\ sig.found
          /\ ~sig.err
          /\ sig.slot # 0
          /\ outcome.blockNumber = sig.slot)
    /\ (/\ pc \in {"block", "backoff", "sleep", "ended"}
        /\ sig.found
        /\ ~sig.err
        /\ sig.slot = 0) =>
         (pc = "sleep" /\ fetch = "none" /\ outcome = NoOutcome)

C34_Witness ==
  /\ impl = "solana"
  /\ status = "confirmed"
  /\ maxConfirmations = 1
  /\ pc = "sleep"
  /\ sig.found
  /\ ~sig.err
  /\ sig.slot = 0
  /\ sig.level = "finalized"
  /\ sig.confirmations = 2

\* C35: retry() with maxRetries <= 0 never invokes fn and never sleeps, and
\* it ends by throwing lastError as declared, unassigned, not an error of fn.
C35_NoAttemptThrowsUnassigned ==
  rMax <= 0 =>
    /\ rCalls = 0
    /\ rLastError = 0
    /\ rSlept = 0
    /\ rLastSleep = 0
    /\ rPc \in {"loop", "thrown"}
    /\ rResult.kind # "return"
    /\ (rPc = "thrown" => rResult = [kind |-> "throw", value |-> 0])

C35_Witness ==
  /\ rMax \in {-1, 0}
  /\ rPc = "thrown"
  /\ rCalls = 0
  /\ rSlept = 0
  /\ rResult = [kind |-> "throw", value |-> 0]

====
